---- MODULE Spec2Model ----
(***************************************************************************)
(* Model of the in-memory catalogue store (class MemStorage) and of the    *)
(* HTTP handlers that use it.                                              *)
(*                                                                         *)
(* Text values that the code only compares for equality (rating codes,     *)
(* language codes and names) are TLA+ strings.  Text values on which the   *)
(* code computes (titles, genres, descriptions, search text) are sequences *)
(* of one-character strings, so that toLowerCase, trim, includes and       *)
(* localeCompare are computed character by character.                      *)
(***************************************************************************)
EXTENDS Integers, Sequences, FiniteSets, TLC

(***************************************************************************)
(* Bounds of the model.  The three loop constants of the build are scaled  *)
(* down (300 pages, batches of 50, ready after 1000 titles in the source). *)
(***************************************************************************)
MaxPages == 2
batchSize == 2
ReadyThreshold == 2
MaxCycles == 2
MaxTable == 3

(***************************************************************************)
(* JavaScript strings as sequences of characters.                          *)
(***************************************************************************)
LowerAlpha ==
  << "a", "b", "c", "d", "e", "f", "g", "h", "i", "j", "k", "l", "m",
     "n", "o", "p", "q", "r", "s", "t", "u", "v", "w", "x", "y", "z" >>

UpperAlpha ==
  << "A", "B", "C", "D", "E", "F", "G", "H", "I", "J", "K", "L", "M",
     "N", "O", "P", "Q", "R", "S", "T", "U", "V", "W", "X", "Y", "Z" >>

\* The value of a JSON field that is absent (JavaScript undefined).
Undef == << "<undefined>" >>

UpperLetters == {UpperAlpha[i] : i \in DOMAIN UpperAlpha}

\* The place of each letter in the alphabet, whatever its case.
letterIndexOf ==
  [c \in UpperLetters \cup {LowerAlpha[i] : i \in DOMAIN LowerAlpha} |->
     CHOOSE i \in DOMAIN LowerAlpha : LowerAlpha[i] = c \/ UpperAlpha[i] = c]

IsUpper(c) == c \in UpperLetters

LetterIndex(c) == IF c \in DOMAIN letterIndexOf THEN letterIndexOf[c] ELSE 0

\* String.prototype.toLowerCase
toLowerCase(s) ==
  [i \in DOMAIN s |-> IF IsUpper(s[i]) THEN LowerAlpha[LetterIndex(s[i])] ELSE s[i]]

\* String.prototype.includes
includes(s, sub) ==
  \E i \in 0..(Len(s) - Len(sub)) : SubSeq(s, i + 1, i + Len(sub)) = sub

RECURSIVE trimStart(_)
trimStart(s) ==
  IF s # << >> /\ Head(s) = " " THEN trimStart(Tail(s)) ELSE s

RECURSIVE trimEnd(_)
trimEnd(s) ==
  IF s # << >> /\ s[Len(s)] = " " THEN trimEnd(SubSeq(s, 1, Len(s) - 1)) ELSE s

\* String.prototype.trim
trim(s) == trimEnd(trimStart(s))

(***************************************************************************)
(* String.prototype.localeCompare under the default collation: strings are *)
(* compared first by their letters regardless of case (a space sorts       *)
(* before every letter), and strings equal in that respect are ordered by  *)
(* case, a lowercase letter before the same uppercase letter.              *)
(***************************************************************************)
\* The order of two sequences of numbers: decided by the first position at
\* which they differ, a proper prefix coming first.
lexCompare(a, b) ==
  LET differ == {i \in DOMAIN a \cap DOMAIN b : a[i] # b[i]}
      first == CHOOSE i \in differ : \A j \in differ : i <= j
  IN IF differ # {} THEN (IF a[first] < b[first] THEN -1 ELSE 1)
     ELSE IF Len(a) < Len(b) THEN -1
     ELSE IF Len(a) > Len(b) THEN 1
     ELSE 0

primaryKey(s) == [i \in DOMAIN s |-> LetterIndex(s[i])]

caseKey(s) == [i \in DOMAIN s |-> IF IsUpper(s[i]) THEN 1 ELSE 0]

localeCompare(a, b) ==
  LET byLetters == lexCompare(primaryKey(a), primaryKey(b))
  IN IF byLetters # 0 THEN byLetters ELSE lexCompare(caseKey(a), caseKey(b))

\* ToString of a comparand: localeCompare(undefined) compares with "undefined".
argString(t) ==
  IF t = Undef THEN << "u", "n", "d", "e", "f", "i", "n", "e", "d" >> ELSE t

(***************************************************************************)
(* Upstream data: what the list and detail requests of the external        *)
(* metadata API answer.  A list item carries id and media_type; a detail   *)
(* body carries the fields the build reads, Undef when the field is        *)
(* absent.  cert is the certification of the GB entry: NoCert when the     *)
(* body has no GB entry, "" when the entry has an empty certification.     *)
(***************************************************************************)
NoCert == "<none>"

NoLang == "<none>"

Drama == << "D", "r", "a", "m", "a" >>

Comedy == << "C", "o", "m", "e", "d", "y" >>

NoDescription ==
  << "N", "o", " ", "d", "e", "s", "c", "r", "i", "p", "t", "i", "o", "n", " ",
     "a", "v", "a", "i", "l", "a", "b", "l", "e" >>

Upstream1 ==
  [id |-> 1, media_type |-> "movie", title |-> << "a", "b" >>, name |-> Undef,
   cert |-> "15", original_language |-> "en", genre |-> Drama,
   overview |-> << "A", " ", "b" >>]

Upstream2 ==
  [id |-> 2, media_type |-> "movie", title |-> << "A", "b" >>, name |-> Undef,
   cert |-> "12A", original_language |-> "ko", genre |-> Comedy,
   overview |-> Undef]

Upstream3 ==
  [id |-> 1, media_type |-> "tv", title |-> Undef, name |-> << "B" >>,
   cert |-> "R18", original_language |-> "xx", genre |-> Undef,
   overview |-> << "b" >>]

Upstream4 ==
  [id |-> 3, media_type |-> "tv", title |-> Undef, name |-> << "a", "b" >>,
   cert |-> NoCert, original_language |-> "en", genre |-> Comedy,
   overview |-> << >>]

\* The pages of the two discover lists, one result per page.
MovieList == << Upstream1, Upstream2 >>

TvList == << Upstream3 >>

\* A detail answer that is an error body of the API (no field of a title).
ErrorBody(item) ==
  [id |-> item.id, media_type |-> item.media_type, title |-> Undef, name |-> Undef,
   cert |-> NoCert, original_language |-> NoLang, genre |-> Undef, overview |-> Undef]

(***************************************************************************)
(* The static lookup tables of the build.                                  *)
(***************************************************************************)
\* Mutation: a certification outside the switch is returned as it is.
mapTMDBToUKRating_passThrough(certification) ==
  CASE certification \in {"12A", "12"} -> "12"
    [] certification \in {"18", "R18"} -> "18"
    [] OTHER -> certification

mapTMDBToUKRating(certification) ==
  CASE certification = "U" -> "U"
    [] certification = "PG" -> "PG"
    [] certification \in {"12A", "12"} -> "12"
    [] certification = "15" -> "15"
    [] certification \in {"18", "R18"} -> "18"
    [] OTHER -> "12"

languageMap ==
  [code \in {"en", "es", "fr", "de", "it", "ja", "ko", "zh", "hi", "pt", "ru",
             "ar", "th", "tr", "nl", "sv", "da", "no", "fi", "pl", "cs", "hu",
             "ro", "bg", "hr", "sr", "sk", "sl", "et", "lv", "lt", "mt", "ga"} |->
     CASE code = "en" -> "English" [] code = "es" -> "Spanish"
       [] code = "fr" -> "French" [] code = "de" -> "German"
       [] code = "it" -> "Italian" [] code = "ja" -> "Japanese"
       [] code = "ko" -> "Korean" [] code = "zh" -> "Chinese"
       [] code = "hi" -> "Hindi" [] code = "pt" -> "Portuguese"
       [] code = "ru" -> "Russian" [] code = "ar" -> "Arabic"
       [] code = "th" -> "Thai" [] code = "tr" -> "Turkish"
       [] code = "nl" -> "Dutch" [] code = "sv" -> "Swedish"
       [] code = "da" -> "Danish" [] code = "no" -> "Norwegian"
       [] code = "fi" -> "Finnish" [] code = "pl" -> "Polish"
       [] code = "cs" -> "Czech" [] code = "hu" -> "Hungarian"
       [] code = "ro" -> "Romanian" [] code = "bg" -> "Bulgarian"
       [] code = "hr" -> "Croatian" [] code = "sr" -> "Serbian"
       [] code = "sk" -> "Slovak" [] code = "sl" -> "Slovenian"
       [] code = "et" -> "Estonian" [] code = "lv" -> "Latvian"
       [] code = "lt" -> "Lithuanian" [] code = "mt" -> "Maltese"
       [] OTHER -> "Irish"]

\* a || b on strings: a unless it is undefined or empty.
orElse(a, b) == IF a = Undef \/ a = << >> THEN b ELSE a

\* The rating extracted from a detail body (ukRating).
ukRating(details) ==
  IF details.cert = NoCert \/ details.cert = "" THEN "12"
  ELSE mapTMDBToUKRating(details.cert)

\* The Content object built from a list item and its detail body.  cyc, cert
\* and code are history fields: the number of the refresh cycle that built
\* the object, and the GB certification and the language code of the body.
makeContent(item, details, id, cyc) ==
  [id |-> id,
   title |-> orElse(details.title, details.name),
   rating |-> ukRating(details),
   genre |-> orElse(details.genre, Drama),
   description |-> orElse(details.overview, NoDescription),
   type |-> IF item.media_type = "movie" THEN "movie" ELSE "series",
   language |-> IF details.original_language \in DOMAIN languageMap
                THEN languageMap[details.original_language] ELSE "Other",
   tmdbId |-> item.id,
   cyc |-> cyc,
   cert |-> details.cert,
   code |-> details.original_language]

(***************************************************************************)
(* The table this.content: a Map, modelled as the sequence of its values   *)
(* in insertion order.  Map.set replaces the value of a key that is        *)
(* present, in place, and appends otherwise.                               *)
(***************************************************************************)
hasKey(tbl, k) == \E i \in DOMAIN tbl : tbl[i].id = k

mapSet(tbl, k, v) ==
  IF hasKey(tbl, k)
  THEN [i \in DOMAIN tbl |-> IF tbl[i].id = k THEN v ELSE tbl[i]]
  ELSE Append(tbl, v)

(***************************************************************************)
(* Array.prototype.sort((a, b) => a.title.localeCompare(b.title)).         *)
(* The sort is stable.  The comparator throws when the title of its        *)
(* receiver a is undefined, and compares with the text "undefined" when    *)
(* the title of its argument b is; which element of a pair is the receiver *)
(* is the engine's choice.  An outcome is a returned list or a throw.      *)
(***************************************************************************)
Returned(list) == [ok |-> TRUE, list |-> list]

Thrown == [ok |-> FALSE, list |-> << >>]

byTitle(a, b) == localeCompare(argString(a.title), argString(b.title))

\* Mutation: elements that compare equal come out in reverse order.
stableSort_tiesReversed(arr) ==
  LET before(j, i) ==
        j # i /\ LET order == byTitle(arr[j], arr[i])
                 IN order < 0 \/ (order = 0 /\ j > i)
      rank == [i \in DOMAIN arr |-> Cardinality({j \in DOMAIN arr : before(j, i)}) + 1]
  IN [p \in DOMAIN arr |-> arr[CHOOSE i \in DOMAIN arr : rank[i] = p]]

\* The sorted array: an element comes after the elements that compare less
\* and after the elements before it that compare equal.
stableSort(arr) ==
  LET before(j, i) ==
        j # i /\ LET order == byTitle(arr[j], arr[i])
                 IN order < 0 \/ (order = 0 /\ j < i)
      rank == [i \in DOMAIN arr |-> Cardinality({j \in DOMAIN arr : before(j, i)}) + 1]
  IN [p \in DOMAIN arr |-> arr[CHOOSE i \in DOMAIN arr : rank[i] = p]]

untitled(arr) == {i \in DOMAIN arr : arr[i].title = Undef}

\* Mutation: the list is returned in table order.
sortByTitle_unsorted(arr) == {Returned(arr)}

sortByTitle(arr) ==
  IF Len(arr) <= 1 THEN {Returned(arr)}
  ELSE IF untitled(arr) = {} THEN {Returned(stableSort(arr))}
  ELSE IF Cardinality(untitled(arr)) = 1 THEN {Thrown, Returned(stableSort(arr))}
  ELSE {Thrown}

(***************************************************************************)
(* The read operations of MemStorage.  Each yields the set of its possible *)
(* outcomes on the table tbl.                                              *)
(***************************************************************************)
getAllContent(tbl) == sortByTitle(tbl)

getContentByRating(tbl, rating) ==
  sortByTitle(SelectSeq(tbl, LAMBDA item : item.rating = rating))

\* The predicate of the free-text search; it dereferences item.title first.
matchesQuery(item, lowercaseQuery) ==
  \/ includes(toLowerCase(item.title), lowercaseQuery)
  \/ includes(toLowerCase(item.genre), lowercaseQuery)
  \/ includes(toLowerCase(item.description), lowercaseQuery)

searchContent(tbl, query) ==
  IF untitled(tbl) # {} THEN {Thrown}
  ELSE sortByTitle(SelectSeq(tbl, LAMBDA item : matchesQuery(item, toLowerCase(query))))

inArray(arr, x) == \E i \in DOMAIN arr : arr[i] = x

\* searchQuery && searchQuery.trim()
hasSearch(searchQuery) ==
  searchQuery # Undef /\ searchQuery # << >> /\ trim(searchQuery) # << >>

hasFilters(ratings, languages, genres, searchQuery) ==
  Len(ratings) > 0 \/ Len(languages) > 0 \/ Len(genres) > 0 \/ hasSearch(searchQuery)

\* Mutation: the rating constraint is not applied.
byRatings_skipped(arr, ratings) == arr

byRatings(arr, ratings) ==
  IF Len(ratings) > 0 THEN SelectSeq(arr, LAMBDA item : inArray(ratings, item.rating))
  ELSE arr

\* Mutation: the language constraint is not applied.
byLanguages_skipped(arr, languages) == arr

byLanguages(arr, languages) ==
  IF Len(languages) > 0
  THEN SelectSeq(arr, LAMBDA item : inArray(languages, item.language))
  ELSE arr

byGenres(arr, genres) ==
  IF Len(genres) > 0 THEN SelectSeq(arr, LAMBDA item : inArray(genres, item.genre))
  ELSE arr

\* Mutation: the search text is not trimmed.
bySearch_untrimmed(arr, searchQuery) ==
  SelectSeq(arr, LAMBDA item : matchesQuery(item, toLowerCase(searchQuery)))

bySearch(arr, searchQuery) ==
  SelectSeq(arr, LAMBDA item : matchesQuery(item, trim(toLowerCase(searchQuery))))

\* Mutation: a title is kept when any of the categories given accepts it.
filterContent_anyCategory(tbl, ratings, languages, genres, searchQuery) ==
  IF ~hasFilters(ratings, languages, genres, searchQuery) THEN sortByTitle(tbl)
  ELSE IF hasSearch(searchQuery) /\ untitled(tbl) # {} THEN {Thrown}
  ELSE sortByTitle(SelectSeq(tbl, LAMBDA item :
         \/ inArray(ratings, item.rating)
         \/ inArray(languages, item.language)
         \/ inArray(genres, item.genre)
         \/ hasSearch(searchQuery) /\ matchesQuery(item, trim(toLowerCase(searchQuery)))))

\* Mutation: without filters nothing is returned instead of the whole table.
filterContent_emptyWithoutFilters(tbl, ratings, languages, genres, searchQuery) ==
  IF ~hasFilters(ratings, languages, genres, searchQuery) THEN {Returned(<< >>)}
  ELSE LET kept == byGenres(byLanguages(byRatings(tbl, ratings), languages), genres)
       IN IF ~hasSearch(searchQuery) THEN sortByTitle(kept)
          ELSE IF untitled(kept) # {} THEN {Thrown}
          ELSE sortByTitle(bySearch(kept, searchQuery))

filterContent(tbl, ratings, languages, genres, searchQuery) ==
  IF ~hasFilters(ratings, languages, genres, searchQuery) THEN sortByTitle(tbl)
  ELSE LET kept == byGenres(byLanguages(byRatings(tbl, ratings), languages), genres)
       IN IF ~hasSearch(searchQuery) THEN sortByTitle(kept)
          ELSE IF untitled(kept) # {} THEN {Thrown}
          ELSE sortByTitle(bySearch(kept, searchQuery))

(***************************************************************************)
(* GET /api/content/filter: a query parameter is absent, one string or an  *)
(* array of strings; the handler turns it into an array.                   *)
(***************************************************************************)
Absent == [tag |-> "absent", a |-> << >>]

One(s) == [tag |-> "string", a |-> << s >>]

Many(a) == [tag |-> "array", a |-> a]

\* if (q) { array = Array.isArray(q) ? q : [q] }, for q of codes (emptyString "")
\* or of texts (emptyString << >>).
toArray(q, emptyString) ==
  IF q.tag = "absent" THEN << >>
  ELSE IF q.tag = "string" /\ q.a[1] = emptyString THEN << >>
  ELSE q.a

(***************************************************************************)
(* State.  content, currentContentId, lastUpdateTime, isUpdating and       *)
(* catalogReady are the fields of MemStorage.  retries and initPc are the  *)
(* local state of initializeWithScheduledUpdates.  run holds, for each     *)
(* caller of refreshContentFromAPI, the local state of its invocation of   *)
(* refreshContentFromAPI and buildNetflixCatalogFromTMDB.  Time is the     *)
(* number of refresh cycles started so far (cycles).  overwritten, event   *)
(* and lastRead are history: whether a Map.set ever replaced an entry,     *)
(* what the last step did (a call, a timer tick, the end of a cycle, an    *)
(* HTTP answer), and the last read with its outcome.  keepBefore says     *)
(* whether an invocation records the table it began with (SpecHistory).    *)
(***************************************************************************)
VARIABLES content, currentContentId, lastUpdateTime, isUpdating, catalogReady,
          retries, initPc, run, cycles, overwritten, event, lastRead, keepBefore,
          db, updater, toasts, timers, toastLog, home, rated

vars == << content, currentContentId, lastUpdateTime, isUpdating, catalogReady,
           retries, initPc, run, cycles, overwritten, event, lastRead, keepBefore,
           db, updater, toasts, timers, toastLog, home, rated >>

\* rated is a call of a rating helper of the storage module: the helper,
\* its argument and, once it has returned, its result.
NotRated == [helper |-> "none", usRating |-> "", result |-> "<pending>"]

\* The state of the browser: the list of the hook useToast with its pending
\* timers, and the state of the page Home.  toastLog is history: the number
\* of calls of toast and what the last step of the hook did.
clientVars == << toasts, timers, toastLog, home >>

NoToastLog == [calls |-> 0, op |-> "none", id |-> ""]

NoHome == [pc |-> "none"]

\* No page is open in the specifications of the server.
NoClient ==
  /\ toasts = << >>
  /\ timers = << >>
  /\ toastLog = NoToastLog
  /\ home = NoHome

\* The database of CatalogUpdater (tables content and catalog_updates) and
\* the position of its running update; no CatalogUpdater is constructed in
\* the specifications of the in-memory storage.
NoDb == [content |-> << >>, contentSerial |-> 1, catalogUpdates |-> << >>]

NoUpdater == [pc |-> "none"]

Initializer == << "init", 0 >>

Timer == << "timer", 0 >>

Handler == << "request", 0 >>

Invokers == {Initializer, Timer, Handler}

Min(a, b) == IF a < b THEN a ELSE b

IdleRun ==
  [pc |-> "idle", page |-> 0, all |-> << >>, i |-> 0, st |-> << >>,
   processedCount |-> 0, cyc |-> 0, before |-> << >>, broke |-> << >>]

NoRead ==
  [op |-> "none", ratings |-> << >>, languages |-> << >>, genres |-> << >>,
   text |-> Undef, rating |-> "", status |-> 0, list |-> << >>,
   q |-> [tag |-> "absent", a |-> << >>]]

\* An event: op is "call" (refreshContentFromAPI was called, and skipped or
\* not), "tick" (a timer tick that called nothing) or "end" (a refresh cycle
\* ended; ended is the local state of its invocation at that point, abandoned
\* says that every list request failed); status and count are the answer of
\* POST /api/content/refresh when the step sent it.
NoEvent ==
  [op |-> "none", who |-> << "none", 0 >>, skipped |-> FALSE, abandoned |-> FALSE,
   status |-> 0, count |-> 0, ended |-> IdleRun]

\* An invocation that has entered the build and awaits page 1 of the movie
\* list.  before is a history field: the table when the invocation began,
\* recorded when keepBefore is set.
FirstFetch(cyc, before) ==
  [pc |-> "movies", page |-> 1, all |-> << >>, i |-> 0, st |-> << >>,
   processedCount |-> 0, cyc |-> cyc, before |-> before, broke |-> << >>]

\* The positions of the callbacks when the first batch starts: those of the
\* batch await their detail request, the others wait for their batch.
firstBatch(all) ==
  [k \in 1..Len(all) |-> IF k <= batchSize THEN "fetch" ELSE "wait"]

batchOver(r) == \A k \in DOMAIN r.st : r.st[k] \notin {"fetch", "sleep"}

(***************************************************************************)
(* The end of refreshContentFromAPI and what the caller does when its      *)
(* await returns: the initializer marks the catalogue ready and installs   *)
(* the timer, a timer tick does nothing more, and the handler of           *)
(* POST /api/content/refresh answers with the number of titles, or with    *)
(* status 500 when getAllContent throws.                                   *)
(***************************************************************************)
Answers(inv, tbl) ==
  IF inv = Handler
  THEN {IF out.ok THEN [status |-> 200, count |-> Len(out.list)]
        ELSE [status |-> 500, count |-> 0] : out \in getAllContent(tbl)}
  ELSE {[status |-> 0, count |-> 0]}

\* Mutation: the busy flag is not cleared when the build has returned.
busyAfterRefresh_stillBusy == TRUE

\* lines 121-122, after the build has returned
busyAfterRefresh == FALSE

Finish(inv, r, ready) ==
  /\ lastUpdateTime' = cycles
  /\ isUpdating' = busyAfterRefresh
  /\ run' = [run EXCEPT ![inv] = IdleRun]
  /\ IF inv = Initializer
     THEN catalogReady' = TRUE /\ initPc' = "scheduled"
     ELSE catalogReady' = ready /\ UNCHANGED initPc
  /\ \E answer \in Answers(inv, content') :
       event' = [op |-> "end", who |-> inv, skipped |-> FALSE,
                 abandoned |-> (r.all = << >> /\ r.broke = << "fail", "fail" >>),
                 status |-> answer.status, count |-> answer.count, ended |-> r]

(***************************************************************************)
(* The loop over the batches, from the point where the callbacks of the    *)
(* current batch have all ended: the readiness test of lines 280-286, then *)
(* either the next batch or the end of the build.                          *)
(***************************************************************************)
readyAfterBatch(r, tbl) ==
  \/ catalogReady
  \/ r.i % (batchSize * 2) = 0 /\ Len(tbl) >= ReadyThreshold

\* Mutation: a failed title ends the build after its batch.
NextBatch_endsOnFailure(inv, r) ==
  IF r.i + batchSize < Len(r.all) /\ \A k \in DOMAIN r.st : r.st[k] # "failed"
  THEN /\ run' = [run EXCEPT ![inv] =
                    [r EXCEPT !.i = r.i + batchSize,
                              !.st = [k \in DOMAIN r.st |->
                                        IF r.st[k] = "wait" /\ k <= r.i + 2 * batchSize
                                        THEN "fetch" ELSE r.st[k]]]]
       /\ catalogReady' = readyAfterBatch(r, content')
       /\ event' = NoEvent
       /\ UNCHANGED << lastUpdateTime, isUpdating, initPc >>
  ELSE Finish(inv, r, readyAfterBatch(r, content'))

NextBatch(inv, r) ==
  IF r.i + batchSize < Len(r.all)
  THEN /\ run' = [run EXCEPT ![inv] =
                    [r EXCEPT !.i = r.i + batchSize,
                              !.st = [k \in DOMAIN r.st |->
                                        IF r.st[k] = "wait" /\ k <= r.i + 2 * batchSize
                                        THEN "fetch" ELSE r.st[k]]]]
       /\ catalogReady' = readyAfterBatch(r, content')
       /\ event' = NoEvent
       /\ UNCHANGED << lastUpdateTime, isUpdating, initPc >>
  ELSE Finish(inv, r, readyAfterBatch(r, content'))

Continue(inv, r) ==
  IF batchOver(r) THEN NextBatch(inv, r)
  ELSE /\ run' = [run EXCEPT ![inv] = r]
       /\ event' = NoEvent
       /\ UNCHANGED << lastUpdateTime, isUpdating, catalogReady, initPc >>

(***************************************************************************)
(* refreshContentFromAPI, from the call to its first await: skipped when   *)
(* an update is in progress, otherwise the table is cleared, the id        *)
(* counter reset and page 1 of the movie list requested.                   *)
(***************************************************************************)
\* Mutation: the test of the busy flag is missing.
alreadyUpdating_never == FALSE

\* line 106
alreadyUpdating == isUpdating

\* Mutation: the busy flag is not set.
busyDuringRefresh_unset == isUpdating

\* line 111
busyDuringRefresh == TRUE

\* Mutation: the table is not cleared.
clearedContent_kept == content

\* line 112
clearedContent == << >>

Call(inv) ==
  /\ alreadyUpdating \/ (run[inv].pc = "idle" /\ cycles < MaxCycles)
  /\ IF alreadyUpdating
     THEN /\ UNCHANGED << content, currentContentId, isUpdating, run, cycles >>
          /\ \E answer \in Answers(inv, content) :
               event' = [op |-> "call", who |-> inv, skipped |-> TRUE,
                         abandoned |-> FALSE, status |-> answer.status,
                         count |-> answer.count, ended |-> IdleRun]
     ELSE /\ isUpdating' = busyDuringRefresh
          /\ content' = clearedContent
          /\ currentContentId' = 1
          /\ cycles' = cycles + 1
          /\ run' = [run EXCEPT ![inv] = FirstFetch(cycles + 1, IF keepBefore THEN content ELSE << >>)]
          /\ event' = [NoEvent EXCEPT !.op = "call", !.who = inv]

(***************************************************************************)
(* The timer callback installed by initializeWithScheduledUpdates.         *)
(***************************************************************************)
\* Mutation: the timer callback never refreshes.
tickRefreshes_never == FALSE

tickRefreshes == ~isUpdating /\ catalogReady

Tick ==
  /\ initPc = "scheduled"
  /\ IF tickRefreshes
     THEN Call(Timer)
     ELSE /\ event' = [NoEvent EXCEPT !.op = "tick", !.who = Timer, !.skipped = TRUE]
          /\ UNCHANGED << content, currentContentId, isUpdating, run, cycles >>
  /\ UNCHANGED << lastUpdateTime, catalogReady, retries, initPc, overwritten, lastRead,
                  keepBefore, db, updater, rated, clientVars >>

(***************************************************************************)
(* POST /api/content/refresh, from the request to the first await that     *)
(* does not return at once.  A skipped refresh returns at once, and the    *)
(* handler answers with the size of the table as it is.                    *)
(***************************************************************************)
ManualRefresh(req) ==
  /\ Call(req)
  /\ UNCHANGED << lastUpdateTime, catalogReady, retries, initPc, overwritten, lastRead,
                  keepBefore, db, updater, rated, clientVars >>

(***************************************************************************)
(* buildNetflixCatalogFromTMDB: the answer to the request of a page of the *)
(* movie list.  A failed request, a response that is not OK and a page     *)
(* without results end the loop; the TV list is requested next.            *)
(***************************************************************************)
PageOutcomes(list, page) ==
  {"fail", "empty"} \cup (IF page <= Len(list) THEN {"results"} ELSE {})

\* Mutation: a failed request of the movie list ends the discovery; the TV
\* list is not requested.
MoviesPage_failEndsDiscovery(inv, outcome) ==
  /\ run[inv].pc = "movies"
  /\ outcome \in PageOutcomes(MovieList, run[inv].page)
  /\ LET r == run[inv]
         found == IF outcome = "results"
                  THEN Append(r.all, [id |-> MovieList[r.page].id, media_type |-> "movie"])
                  ELSE r.all
     IN run' = [run EXCEPT ![inv] =
                  IF outcome = "results" /\ r.page < MaxPages
                  THEN [r EXCEPT !.all = found, !.page = r.page + 1]
                  ELSE IF outcome = "fail" /\ found # << >>
                  THEN [r EXCEPT !.pc = "details", !.st = firstBatch(found),
                                 !.broke = Append(r.broke, outcome)]
                  ELSE [r EXCEPT !.all = found, !.pc = "tv", !.page = 1,
                                 !.broke = Append(r.broke, IF outcome = "results"
                                                           THEN "limit" ELSE outcome)]]
  /\ event' = NoEvent
  /\ UNCHANGED << content, currentContentId, lastUpdateTime, isUpdating, catalogReady,
                  retries, initPc, cycles, overwritten, lastRead, keepBefore, db, updater, rated, clientVars >>

MoviesPage(inv, outcome) ==
  /\ run[inv].pc = "movies"
  /\ outcome \in PageOutcomes(MovieList, run[inv].page)
  /\ LET r == run[inv]
         found == IF outcome = "results"
                  THEN Append(r.all, [id |-> MovieList[r.page].id, media_type |-> "movie"])
                  ELSE r.all
     IN run' = [run EXCEPT ![inv] =
                  IF outcome = "results" /\ r.page < MaxPages
                  THEN [r EXCEPT !.all = found, !.page = r.page + 1]
                  ELSE [r EXCEPT !.all = found, !.pc = "tv", !.page = 1,
                                 !.broke = Append(r.broke, IF outcome = "results"
                                                           THEN "limit" ELSE outcome)]]
  /\ event' = NoEvent
  /\ UNCHANGED << content, currentContentId, lastUpdateTime, isUpdating, catalogReady,
                  retries, initPc, cycles, overwritten, lastRead, keepBefore, db, updater, rated, clientVars >>

(***************************************************************************)
(* The answer to the request of a page of the TV list.  When the loop ends *)
(* the detail requests of the first batch are issued; with nothing found   *)
(* the build ends at once.                                                 *)
(***************************************************************************)
TvPage(inv, outcome) ==
  /\ run[inv].pc = "tv"
  /\ outcome \in PageOutcomes(TvList, run[inv].page)
  /\ LET r == run[inv]
         found == IF outcome = "results"
                  THEN Append(r.all, [id |-> TvList[r.page].id, media_type |-> "tv"])
                  ELSE r.all
         ended == [r EXCEPT !.all = found, !.pc = "details", !.st = firstBatch(found),
                            !.broke = Append(r.broke, IF outcome = "results"
                                                      THEN "limit" ELSE outcome)]
     IN IF outcome = "results" /\ r.page < MaxPages
        THEN /\ run' = [run EXCEPT ![inv] = [r EXCEPT !.all = found, !.page = r.page + 1]]
             /\ event' = NoEvent
             /\ UNCHANGED << content, lastUpdateTime, isUpdating, catalogReady, initPc >>
        ELSE /\ UNCHANGED content
             /\ IF found = << >>
                THEN Finish(inv, ended, catalogReady)
                ELSE /\ run' = [run EXCEPT ![inv] = ended]
                     /\ event' = NoEvent
                     /\ UNCHANGED << lastUpdateTime, isUpdating, catalogReady, initPc >>
  /\ UNCHANGED << currentContentId, retries, cycles, overwritten, lastRead, keepBefore, db, updater, rated, clientVars >>

(***************************************************************************)
(* One callback of a batch, at the answer to its detail request.  A failed *)
(* request or parse is caught and the title skipped.  Otherwise the        *)
(* Content object takes the next id and is put into the table, and the     *)
(* callback sleeps.  The callback that ends last resumes the loop.         *)
(***************************************************************************)
Upstream == {Upstream1, Upstream2, Upstream3, Upstream4}

detailsOf(item) ==
  CHOOSE d \in Upstream : d.id = item.id /\ d.media_type = item.media_type

\* Mutation: the id counter is read without being incremented.
nextContentId_same(id) == id

\* this.currentContentId++ (line 252)
nextContentId(id) == id + 1

\* The callback of title k of the list when its detail request has failed
\* (failed) or has been answered with body.
Respond(inv, k, failed, body) ==
  /\ run[inv].pc = "details"
  /\ k \in DOMAIN run[inv].st
  /\ run[inv].st[k] = "fetch"
  /\ LET r == run[inv]
         item == r.all[k]
         made == makeContent(item, body, currentContentId, r.cyc)
     IN IF failed
        THEN /\ UNCHANGED << content, currentContentId, overwritten >>
             /\ Continue(inv, [r EXCEPT !.st[k] = "failed"])
        ELSE /\ content' = mapSet(content, made.id, made)
             /\ currentContentId' = nextContentId(currentContentId)
             /\ overwritten' = (overwritten \/ hasKey(content, made.id))
             /\ Continue(inv, [r EXCEPT !.st[k] = "sleep",
                                        !.processedCount = r.processedCount + 1])
  /\ UNCHANGED << retries, cycles, lastRead, keepBefore, db, updater, rated, clientVars >>

\* The API answers the detail request of a title with the body of the title
\* ("ok") or with an error body ("error"), or the request fails ("fail").
Detail(inv, k, outcome) ==
  /\ run[inv].pc = "details"
  /\ k \in DOMAIN run[inv].st
  /\ Respond(inv, k, outcome = "fail",
             IF outcome = "ok" THEN detailsOf(run[inv].all[k])
             ELSE ErrorBody(run[inv].all[k]))

\* The end of the sleep of a callback (line 271).
Wake(inv, k) ==
  /\ run[inv].pc = "details"
  /\ k \in DOMAIN run[inv].st
  /\ run[inv].st[k] = "sleep"
  /\ UNCHANGED << content, currentContentId, overwritten >>
  /\ Continue(inv, [run[inv] EXCEPT !.st[k] = "done"])
  /\ UNCHANGED << retries, cycles, lastRead, keepBefore, db, updater, rated, clientVars >>

(***************************************************************************)
(* The state after construction: the constructor has called                *)
(* initializeWithScheduledUpdates, whose first attempt has cleared the     *)
(* table and requested page 1 of the movie list.                           *)
(***************************************************************************)
Started ==
  /\ content = << >>
  /\ currentContentId = 1
  /\ lastUpdateTime = 0
  /\ isUpdating = TRUE
  /\ catalogReady = FALSE
  /\ retries = 3
  /\ initPc = "refresh"
  /\ cycles = 1
  /\ run = [inv \in Invokers |->
              IF inv = Initializer THEN FirstFetch(1, << >>) ELSE IdleRun]
  /\ overwritten = FALSE
  /\ event = [NoEvent EXCEPT !.op = "call", !.who = Initializer]
  /\ lastRead = NoRead

Init == Started /\ keepBefore = FALSE /\ db = NoDb /\ updater = NoUpdater /\ rated = NotRated /\ NoClient

InitHistory == Started /\ keepBefore = TRUE /\ db = NoDb /\ updater = NoUpdater /\ rated = NotRated /\ NoClient

Next ==
  \/ Tick
  \/ ManualRefresh(Handler)
  \/ \E inv \in Invokers, outcome \in {"fail", "empty", "results"} : MoviesPage(inv, outcome)
  \/ \E inv \in Invokers, outcome \in {"fail", "empty", "results"} : TvPage(inv, outcome)
  \/ \E inv \in Invokers, k \in 1..(Len(MovieList) + Len(TvList)),
        outcome \in {"ok", "error", "fail"} : Detail(inv, k, outcome)
  \/ \E inv \in Invokers, k \in 1..(Len(MovieList) + Len(TvList)) : Wake(inv, k)

Spec == Init /\ [][Next]_vars

(***************************************************************************)
(* The callbacks of a batch on every kind of detail body: the initial      *)
(* build has found one movie and one series and awaits their details; the  *)
(* API answers each request with a body whose GB certification and         *)
(* language code are any of the samples, or the request fails.             *)
(***************************************************************************)
Certifications ==
  {NoCert, "", "U", "PG", "12A", "12", "15", "18", "R18", "PG-13", "TV-MA"}

LanguageCodes == {NoLang, "en", "ga", "xx"}

DetailSamples(item) ==
  {[id |-> item.id, media_type |-> item.media_type,
    title |-> IF item.media_type = "movie" THEN << "a" >> ELSE Undef,
    name |-> IF item.media_type = "movie" THEN Undef ELSE << "b" >>,
    cert |-> cert, original_language |-> code, genre |-> Undef, overview |-> Undef] :
     cert \in Certifications, code \in LanguageCodes}

FoundTwo ==
  << [id |-> 1, media_type |-> "movie"], [id |-> 1, media_type |-> "tv"] >>

InitDetails ==
  /\ content = << >>
  /\ currentContentId = 1
  /\ lastUpdateTime = 0
  /\ isUpdating = TRUE
  /\ catalogReady = FALSE
  /\ retries = 3
  /\ initPc = "refresh"
  /\ cycles = 1
  /\ run = [inv \in Invokers |->
              IF inv = Initializer
              THEN [FirstFetch(1, << >>) EXCEPT !.pc = "details", !.all = FoundTwo,
                                               !.st = firstBatch(FoundTwo),
                                               !.broke = << "empty", "empty" >>]
              ELSE IdleRun]
  /\ overwritten = FALSE
  /\ event = NoEvent
  /\ lastRead = NoRead
  /\ keepBefore = FALSE
  /\ db = NoDb
  /\ updater = NoUpdater
  /\ rated = NotRated
  /\ NoClient

NextDetails ==
  \/ \E k \in DOMAIN FoundTwo :
       \E body \in DetailSamples(FoundTwo[k]) : Respond(Initializer, k, FALSE, body)
  \/ \E k \in DOMAIN FoundTwo : Respond(Initializer, k, TRUE, ErrorBody(FoundTwo[k]))
  \/ \E k \in DOMAIN FoundTwo : Wake(Initializer, k)

SpecDetails == InitDetails /\ [][NextDetails]_vars

\* The same program when every request to the external API is eventually
\* answered or fails and every sleep of a callback ends.
Responses ==
  \E inv \in Invokers :
    \/ \E outcome \in {"fail", "empty", "results"} :
         MoviesPage(inv, outcome) \/ TvPage(inv, outcome)
    \/ \E k \in 1..(Len(MovieList) + Len(TvList)) :
         \/ \E outcome \in {"ok", "error", "fail"} : Detail(inv, k, outcome)
         \/ Wake(inv, k)

SpecFair == Init /\ [][Next]_vars /\ WF_vars(Responses)

\* The same program, each invocation recording the table it began with.
SpecHistory == InitHistory /\ [][Next]_vars

(***************************************************************************)
(* The read handlers.  Each answers with the list the storage returns      *)
(* (status 200) or, when the storage throws, with status 500.  lastRead    *)
(* records the arguments passed to the storage and the answer.  The       *)
(* client of the model sends its requests one after the other: a request   *)
(* is sent when the answer to the previous one has been delivered.         *)
(***************************************************************************)
Answered(read, out) ==
  [read EXCEPT !.status = IF out.ok THEN 200 ELSE 500, !.list = out.list]

\* Mutation: the read sorts the entries of the store itself.
storeAfterRead_sortedInPlace(tbl, out) ==
  IF out.ok /\ Len(out.list) = Len(tbl) THEN out.list ELSE tbl

\* Array.from(this.content.values()) is a new array: filter and sort work on
\* it, and the Map keeps its entries in their order of insertion.
storeAfterRead(tbl, out) == tbl

readFrame ==
  UNCHANGED << currentContentId, lastUpdateTime, isUpdating, catalogReady,
               retries, initPc, run, cycles, overwritten, event, keepBefore, db, updater, rated, clientVars >>

\* GET /api/content
GetAll ==
  /\ lastRead = NoRead
  /\ \E out \in getAllContent(content) :
       /\ lastRead' = Answered([NoRead EXCEPT !.op = "all"], out)
       /\ content' = storeAfterRead(content, out)
  /\ readFrame

\* GET /api/content/rating/:rating
GetByRating(rating) ==
  /\ lastRead = NoRead
  /\ \E out \in getContentByRating(content, rating) :
       /\ lastRead' = Answered([NoRead EXCEPT !.op = "rating", !.rating = rating], out)
       /\ content' = storeAfterRead(content, out)
  /\ readFrame

queryRequired_emptyAccepted(q) == q.tag # "string"

\* !q || typeof q !== 'string'
queryRequired(q) == q.tag # "string" \/ q.a[1] = << >>

\* GET /api/content/search
GetSearch(q) ==
  /\ lastRead = NoRead
  /\ IF queryRequired(q)
     THEN /\ lastRead' = [NoRead EXCEPT !.op = "search", !.q = q, !.status = 400]
          /\ content' = content
     ELSE \E out \in searchContent(content, q.a[1]) :
            /\ lastRead' = Answered([NoRead EXCEPT !.op = "search", !.q = q,
                                                   !.text = q.a[1]], out)
            /\ content' = storeAfterRead(content, out)
  /\ readFrame

\* GET /api/content/filter
GetFilter(ratings, languages, genres, search) ==
  /\ lastRead = NoRead
  /\ LET ratingsArray == toArray(ratings, "")
         languagesArray == toArray(languages, "")
         genresArray == toArray(genres, << >>)
     IN \E out \in filterContent(content, ratingsArray, languagesArray, genresArray, search) :
          /\ lastRead' = Answered([NoRead EXCEPT !.op = "filter", !.ratings = ratingsArray,
                                                 !.languages = languagesArray,
                                                 !.genres = genresArray, !.text = search],
                                  out)
          /\ content' = storeAfterRead(content, out)
  /\ readFrame

\* The answer reaches the client.
Deliver ==
  /\ lastRead # NoRead
  /\ lastRead' = NoRead
  /\ UNCHANGED << content, currentContentId, lastUpdateTime, isUpdating, catalogReady,
                  retries, initPc, run, cycles, overwritten, event, keepBefore, db, updater, rated, clientVars >>

(***************************************************************************)
(* The reads are checked on every table a completed refresh can leave, up  *)
(* to MaxTable titles: the Content objects the build makes of the answers  *)
(* of the API, with the ids 1, 2, ... in the order of insertion.           *)
(***************************************************************************)
DetailBodies == Upstream \cup {ErrorBody(Upstream2)}

tableOf(bodies) ==
  [k \in DOMAIN bodies |->
     makeContent([id |-> bodies[k].id, media_type |-> bodies[k].media_type],
                 bodies[k], k, 1)]

Tables == UNION {{tableOf(bodies) : bodies \in [1..n -> DetailBodies]} : n \in 0..MaxTable}

RatingQueries == {Absent, One(""), One("15"), Many(<< "12", "18" >>)}

LanguageQueries == {Absent, One("English"), Many(<< "Korean", "Other" >>)}

GenreQueries == {Absent, One(Drama), Many(<< Comedy, Drama >>)}

SearchTexts == {Undef, << >>, << " " >>, << "a" >>, << " ", "B", " " >>, << "d", "r" >>}

SearchQueries == {Absent, Many(<< << "a" >>, << "b" >> >>)} \cup {One(t) : t \in SearchTexts \ {Undef}}

InitRead ==
  /\ content \in Tables
  /\ currentContentId = Len(content) + 1
  /\ lastUpdateTime = 1
  /\ isUpdating = FALSE
  /\ catalogReady = TRUE
  /\ retries = 3
  /\ initPc = "scheduled"
  /\ cycles = 1
  /\ run = [inv \in Invokers |-> IdleRun]
  /\ overwritten = FALSE
  /\ event = NoEvent
  /\ lastRead = NoRead
  /\ keepBefore = FALSE
  /\ db = NoDb
  /\ updater = NoUpdater
  /\ rated = NotRated
  /\ NoClient

NextRead ==
  \/ GetAll
  \/ \E rating \in {"U", "12", "15", "18", "PG 13"} : GetByRating(rating)
  \/ \E q \in SearchQueries : GetSearch(q)
  \/ \E ratings \in RatingQueries, languages \in LanguageQueries, genres \in GenreQueries,
        search \in SearchTexts : GetFilter(ratings, languages, genres, search)
  \/ Deliver

SpecRead == InitRead /\ [][NextRead]_vars

\* The filter requests alone, each category absent or restricting.
NextFilter ==
  \/ \E ratings \in {Absent, Many(<< "12", "18" >>)},
        languages \in {Absent, Many(<< "Korean", "Other" >>)},
        genres \in {Absent, One(Drama)},
        search \in {Undef, << " ", "D", "R", " " >>} :
          GetFilter(ratings, languages, genres, search)
  \/ Deliver

SpecFilter == InitRead /\ [][NextFilter]_vars

(***************************************************************************)
(* Properties.                                                             *)
(***************************************************************************)
Range(seq) == {seq[i] : i \in DOMAIN seq}

Blank(text) == text = Undef \/ \A i \in DOMAIN text : text[i] = " "

Accepted(item, ratings, languages, genres) ==
  /\ ratings = << >> \/ item.rating \in Range(ratings)
  /\ languages = << >> \/ item.language \in Range(languages)
  /\ genres = << >> \/ item.genre \in Range(genres)

Running == {inv \in Invokers : run[inv].pc # "idle"}

C3_ReadsSortedByTitle ==
  lastRead.status = 200 =>
    \A i \in 1..(Len(lastRead.list) - 1) :
      localeCompare(argString(lastRead.list[i].title),
                    argString(lastRead.list[i + 1].title)) <= 0

C3_Witness ==
  /\ lastRead.op = "rating" /\ lastRead.status = 200
  /\ Len(lastRead.list) = 3
  /\ lastRead.list[1].id > lastRead.list[2].id
  /\ lastRead.list[1].title = << "a", "b" >>
  /\ lastRead.list[3].title = << "A", "b" >>

\* C4: no two entries of the table have the same id, and no Map.set has
\* replaced an entry.
C4_IdsUnique ==
  /\ \A i, j \in DOMAIN content : content[i].id = content[j].id => i = j
  /\ ~overwritten

C4_Witness ==
  /\ cycles = 2 /\ isUpdating /\ Len(content) = 3
  /\ run[Timer].pc = "details"

\* C5: at most one invocation of refreshContentFromAPI is between setting
\* and clearing the busy flag, and the flag is set exactly while one is.
C5_NoOverlap ==
  /\ Cardinality(Running) <= 1
  /\ isUpdating <=> Running # {}

C5_Witness ==
  /\ event.op = "call" /\ event.skipped /\ event.who = Handler
  /\ run[Timer].pc = "details"

\* C6: a call of refreshContentFromAPI made while an update is in progress is
\* skipped and leaves the table, the id counter, the busy flag,
\* lastUpdateTime and the running invocation as they are.
C6_BusyCallSkipped ==
  [][(isUpdating /\ event'.op = "call") =>
       /\ event'.skipped
       /\ UNCHANGED << content, currentContentId, isUpdating, lastUpdateTime, run >>]_vars

C6_Witness ==
  /\ event.op = "call" /\ event.skipped /\ event.status = 200 /\ event.count = 2
  /\ isUpdating /\ currentContentId = 3 /\ lastUpdateTime = 0

\* C7: a first refresh in which every list request failed uses up one of the
\* three attempts, and the initialization ends after such a failure only
\* when no attempt is left.
C7_InitRetries ==
  (event.op = "end" /\ event.who = Initializer /\ event.abandoned) =>
    /\ retries < 3
    /\ initPc = "scheduled" => retries = 0

\* C8: when a cycle in which every list request failed ends, the table is the
\* table the cycle began with.
C8_AbandonedKeepsTable ==
  [][\A inv \in Invokers :
       (run[inv].pc # "idle" /\ event'.op = "end" /\ event'.who = inv
        /\ event'.abandoned) => content' = run[inv].before]_vars

InTable(item, cyc) ==
  \E c \in Range(content) :
    /\ c.tmdbId = item.id
    /\ c.type = (IF item.media_type = "movie" THEN "movie" ELSE "series")
    /\ c.cyc = cyc

Inserted(r) == {k \in DOMAIN r.st : r.st[k] \in {"sleep", "done"}}

\* C9: every entry of the table was inserted by the cycle started last; the
\* table of a running build holds exactly the titles its callbacks have
\* inserted, and the table a cycle ends with exactly the titles it processed.
C9_FullReplacement ==
  /\ \A c \in Range(content) : c.cyc = cycles
  /\ \A inv \in Running :
       /\ Len(content) = Cardinality(Inserted(run[inv]))
       /\ \A k \in Inserted(run[inv]) : InTable(run[inv].all[k], cycles)
  /\ event.op = "end" =>
       /\ Len(content) = event.ended.processedCount
       /\ Len(content) = Cardinality(Inserted(event.ended))
       /\ \A k \in Inserted(event.ended) : InTable(event.ended.all[k], cycles)

C9_Witness ==
  /\ event.op = "end" /\ cycles = 2 /\ lastUpdateTime = 2
  /\ Len(content) = 2 /\ Len(event.ended.all) = 3

\* C10: when a cycle ends, every discovered title whose own detail request
\* did not fail is in the table, the titles whose request failed are not,
\* and the busy flag is clear.
C10_FailureSkipsOneTitle ==
  event.op = "end" =>
    /\ ~isUpdating
    /\ \A k \in DOMAIN event.ended.st :
         IF event.ended.st[k] = "failed"
         THEN ~InTable(event.ended.all[k], event.ended.cyc)
         ELSE event.ended.st[k] = "done" /\ InTable(event.ended.all[k], event.ended.cyc)

C10_Witness ==
  /\ event.op = "end" /\ ~isUpdating
  /\ event.ended.st = << "failed", "done", "done" >>
  /\ Len(content) = 2

\* filterContent applied once more with the arguments of the last read, to a
\* table made of the list that read returned.
Refiltered ==
  filterContent(lastRead.list, lastRead.ratings, lastRead.languages, lastRead.genres,
                lastRead.text)

Categories == {"ratings", "languages", "genres", "search"}

Orders == {o \in [1..4 -> Categories] : \A i, j \in 1..4 : o[i] = o[j] => i = j}

\* One call of filterContent with the constraint of one category of the last
\* read only, on each list the calls before it may have returned.
oneCategory(outs, category) ==
  UNION {IF out.ok
         THEN filterContent(out.list,
                IF category = "ratings" THEN lastRead.ratings ELSE << >>,
                IF category = "languages" THEN lastRead.languages ELSE << >>,
                IF category = "genres" THEN lastRead.genres ELSE << >>,
                IF category = "search" THEN lastRead.text ELSE Undef)
         ELSE {Thrown} : out \in outs}

oneByOne(o) ==
  oneCategory(oneCategory(oneCategory(oneCategory({Returned(content)}, o[1]), o[2]), o[3]),
              o[4])

C13_RefreshAnswersAfterCycle ==
  (event.who = Handler /\ event.status = 200) =>
    /\ event.op = "end"
    /\ event.ended.cyc = cycles
    /\ event.count = event.ended.processedCount
    /\ event.count = Len(content)

\* C14: POST /api/content/refresh answers with the count (status 200) or
\* with status 500, and a request answered with status 500 leaves the table
\* as it was when the request arrived.
C14_FailureKeepsTable ==
  [][(event'.who = Handler /\ event'.status # 0) =>
       /\ event'.status \in {200, 500}
       /\ event'.status = 500 =>
            content' = (IF event'.op = "end" THEN run[Handler].before ELSE content)]_vars

Vocabulary == {"U", "PG", "12", "15", "18"}

LanguageNames == {languageMap[code] : code \in DOMAIN languageMap}

\* C15: every entry of the table has a rating of the vocabulary: the GB
\* certification of its detail body when that is in the vocabulary, 12 for
\* 12A, 18 for R18, and 12 when the body has no GB entry, an empty or any
\* other certification; its type is movie or series and its language a name
\* of the language table or Other.
C15_StoredFieldsInVocabulary ==
  \A c \in Range(content) :
    /\ c.rating \in Vocabulary
    /\ c.cert \in Vocabulary => c.rating = c.cert
    /\ c.cert = "12A" => c.rating = "12"
    /\ c.cert = "R18" => c.rating = "18"
    /\ c.cert \notin Vocabulary \cup {"12A", "R18"} => c.rating = "12"
    /\ c.type \in {"movie", "series"}
    /\ c.language \in LanguageNames \cup {"Other"}

C15_Witness ==
  /\ Len(content) = 2 /\ ~isUpdating
  /\ content[1].type = "series" /\ content[1].cert = "PG-13" /\ content[1].rating = "12"
  /\ content[1].language = "Irish"
  /\ content[2].type = "movie" /\ content[2].cert = "" /\ content[2].language = "Other"

\* A step is a timer tick when its event is a call or a skip by the timer.
TickStep == event'.who = Timer /\ event'.op \in {"call", "tick"}

\* C16: a timer tick happens only when the initial refresh has ended and the
\* timer is installed; it starts a refresh cycle exactly when no refresh is
\* in progress and the catalogue is ready, and a tick during a refresh
\* leaves the table, the id counter, the flags, lastUpdateTime, the number
\* of cycles and the running invocation as they are.
C16_TickStartsWhenIdleAndReady ==
  [][TickStep =>
       /\ initPc = "scheduled" /\ run[Initializer].pc = "idle"
       /\ (~isUpdating /\ catalogReady) <=>
            /\ event'.op = "call" /\ ~event'.skipped
            /\ isUpdating' /\ cycles' = cycles + 1 /\ content' = << >>
            /\ run[Timer].pc = "idle" /\ run'[Timer].pc = "movies"
       /\ isUpdating =>
            /\ event'.op = "tick"
            /\ UNCHANGED << content, currentContentId, isUpdating, catalogReady,
                            lastUpdateTime, cycles, run, initPc >>]_vars

C16_Witness ==
  /\ event.op = "tick" /\ event.who = Timer /\ event.skipped
  /\ isUpdating /\ catalogReady /\ initPc = "scheduled"
  /\ run[Handler].pc = "details" /\ Len(content) = 1

\* Two characters are the same up to the case of a letter.
SameFold(c, d) == c = d \/ (LetterIndex(c) # 0 /\ LetterIndex(c) = LetterIndex(d))

\* The part of a non-blank text between its leading and its trailing spaces.
Stripped(text) ==
  LET first == CHOOSE i \in DOMAIN text :
                 text[i] # " " /\ \A j \in 1..(i - 1) : text[j] = " "
      last == CHOOSE i \in DOMAIN text :
                text[i] # " " /\ \A j \in (i + 1)..Len(text) : text[j] = " "
  IN SubSeq(text, first, last)

\* field contains text as a substring, up to the case of the letters.
ContainsFolded(field, text) ==
  \E i \in 0..(Len(field) - Len(text)) :
    \A j \in DOMAIN text : SameFold(field[i + j], text[j])

C18_BusyFlagCleared ==
  /\ isUpdating ~> ~isUpdating
  /\ [](~isUpdating => (Running = {} /\ tickRefreshes /\ ~alreadyUpdating))

C18_Witness ==
  /\ event.op = "end" /\ event.who = Timer /\ ~isUpdating
  /\ event.ended.st = << "failed", "done" >>
  /\ event.ended.broke = << "limit", "fail" >>
  /\ Len(content) = 1

\* What the API delivered for an entry of the table: the entry without its
\* id and without the number of its cycle.
Delivered(c) == [c EXCEPT !.id = 0, !.cyc = 0]

\* Two tables built from the same data: every title of the two lists was
\* found and answered with its own body both times.
SameUpstream(t1, t2) ==
  /\ Len(t1) = Len(MovieList) + Len(TvList)
  /\ {Delivered(c) : c \in Range(t1)} = {Delivered(c) : c \in Range(t2)}
  /\ \A c \in Range(t1) : c.title # Undef

\* C19: when a refresh cycle ends with a table built from the same data as
\* the table it began with, which the cycle before it had built, every title
\* has the id it had in that table.
C19_IdsPreserved ==
  [][\A inv \in Invokers :
       (/\ run[inv].pc # "idle" /\ event'.op = "end" /\ event'.who = inv
        /\ SameUpstream(run[inv].before, content')) =>
         \A a \in Range(run[inv].before), b \in Range(content') :
           Delivered(a) = Delivered(b) => a.id = b.id]_vars

\* The outcomes of the four read operations on the table as it is, for one
\* argument each.
ReadsNow ==
  UNION {getAllContent(content),
         getContentByRating(content, "12"),
         searchContent(content, << "a" >>),
         filterContent(content, << "12", "15" >>, << >>, << >>, Undef)}

\* C20: while a refresh is in progress, each read operation returns, and it
\* returns entries of the table as it is at that moment.
C20_ReadsDuringRefresh ==
  isUpdating => \A out \in ReadsNow : out.ok /\ Range(out.list) \subseteq Range(content)

\* C21: whenever the busy flag is clear no invocation is running, so no
\* callback is pending; and a step that changes the table or the id counter
\* is made while the flag is set or is the start of a refresh cycle, which
\* sets it.
C21_ChangesOnlyWhileBusy ==
  /\ [](~isUpdating => \A inv \in Invokers : run[inv] = IdleRun)
  /\ [][(content' # content \/ currentContentId' # currentContentId) =>
          /\ isUpdating'
          /\ isUpdating \/ (cycles' = cycles + 1 /\ event'.op = "call")]_vars

C21_Witness ==
  /\ ~isUpdating /\ event.op = "end" /\ event.who = Handler
  /\ \A inv \in Invokers : run[inv] = IdleRun
  /\ Len(content) = 3 /\ currentContentId = 4

\* The titles of one kind in a list of discovered titles.
OfKind(all, kind) == SelectSeq(all, LAMBDA item : item.media_type = kind)

\* The discovery of one list has requested its pages in turn, at most
\* MaxPages, has kept one title for each page answered with results, and has
\* stopped at the first page that failed or was empty (why) or at the limit.
Discovered(found, list, why) ==
  /\ Len(found) <= MaxPages
  /\ \A k \in DOMAIN found : k <= Len(list) /\ found[k].id = list[k].id
  /\ why \in {"fail", "empty", "limit"}
  /\ why = "limit" <=> Len(found) = MaxPages

\* C22: when every request is eventually answered or fails, every refresh
\* cycle that runs ends.  A running cycle awaits a page no later than
\* MaxPages; a callback whose detail request has been answered never awaits
\* a request again; and when a cycle ends both lists have been requested,
\* each up to its first failed or empty page or to the limit, the titles of
\* the pages before are kept in order, movies first, and every discovered
\* title has had its detail request answered or failed.
C22_CycleTerminates ==
  /\ (Running # {}) ~> (Running = {})
  /\ [](\A inv \in Invokers : run[inv].page <= MaxPages)
  /\ [][\A inv \in Invokers : \A k \in DOMAIN run[inv].st :
          (run[inv].st[k] \in {"sleep", "done", "failed"} /\ k \in DOMAIN run'[inv].st) =>
            run'[inv].st[k] # "fetch"]_vars
  /\ [](event.op = "end" =>
          LET r == event.ended
          IN /\ Len(r.broke) = 2
             /\ r.all = OfKind(r.all, "movie") \o OfKind(r.all, "tv")
             /\ Discovered(OfKind(r.all, "movie"), MovieList, r.broke[1])
             /\ Discovered(OfKind(r.all, "tv"), TvList, r.broke[2])
             /\ DOMAIN r.st = DOMAIN r.all
             /\ \A k \in DOMAIN r.st : r.st[k] \in {"done", "failed"})

C22_Witness ==
  /\ event.op = "end" /\ event.ended.cyc = 2
  /\ event.ended.broke = << "fail", "empty" >>
  /\ event.ended.all = << [id |-> 1, media_type |-> "movie"], [id |-> 1, media_type |-> "tv"] >>
  /\ event.ended.st = << "done", "done" >>
  /\ Len(content) = 2

\* C23: GET /api/content/search answers 400, with no list, when q is missing,
\* empty or not one string, whatever the table holds; for every other q it
\* answers with the outcome of searchContent(q): 200 and the list it returns,
\* 500 when it throws.
C23_SearchEndpoint ==
  lastRead.op = "search" =>
    LET q == lastRead.q
    IN IF q.tag = "absent" \/ q.tag = "array" \/ q.a = << << >> >>
       THEN lastRead.status = 400 /\ lastRead.list = << >> /\ lastRead.text = Undef
       ELSE /\ lastRead.status \in {200, 500}
            /\ lastRead.status = 200 => Returned(lastRead.list) \in searchContent(content, q.a[1])
            /\ lastRead.status = 500 => Thrown \in searchContent(content, q.a[1])

C23_Witness ==
  /\ lastRead.op = "search" /\ lastRead.q = One(<< >>) /\ lastRead.status = 400
  /\ Len(content) = 3
  /\ \A item \in Range(content) : item.title # Undef

\* C24: for a query text q that the search endpoint accepted, searchContent(q)
\* has the outcomes of filterContent with no ratings, no languages, no genres
\* and the search text q, and what the endpoint returned is one of them.
C24_SearchIsFilterBySearch ==
  (lastRead.op = "search" /\ lastRead.status # 400) =>
    LET filtered == filterContent(content, << >>, << >>, << >>, lastRead.text)
    IN /\ searchContent(content, lastRead.text) = filtered
       /\ lastRead.status = 200 => Returned(lastRead.list) \in filtered

\* C25: getContentByRating(r) has the outcomes of filterContent called with
\* the one rating r, no languages, no genres and no search text, and what
\* GET /api/content/rating/r answered is one of them.
C25_ByRatingIsFilterByRating ==
  lastRead.op = "rating" =>
    LET filtered == filterContent(content, << lastRead.rating >>, << >>, << >>, Undef)
    IN /\ getContentByRating(content, lastRead.rating) = filtered
       /\ lastRead.status = 200 => Returned(lastRead.list) \in filtered
       /\ lastRead.status = 500 => Thrown \in filtered

C25_Witness ==
  /\ lastRead.op = "rating" /\ lastRead.status = 200
  /\ Len(lastRead.list) = 2 /\ Len(content) = 3
  /\ lastRead.list[1].id > lastRead.list[2].id

\* C26: a step in which getAllContent, getContentByRating, searchContent or
\* filterContent answers leaves the table with its order of insertion, the id
\* counter, the busy flag, the ready flag and lastUpdateTime as they were.
C26_ReadsLeaveStore ==
  [][(lastRead = NoRead /\ lastRead'.op \in {"all", "rating", "search", "filter"}) =>
       UNCHANGED << content, currentContentId, isUpdating, catalogReady, lastUpdateTime >>]_vars

C26_Witness ==
  /\ lastRead.op = "all" /\ lastRead.status = 200
  /\ Len(lastRead.list) = 3 /\ lastRead.list[1].id = 3 /\ lastRead.list[3].id = 1
  /\ Len(content) = 3 /\ \A k \in DOMAIN content : content[k].id = k

\* C27: in every reachable state the entries of the table have distinct ids
\* (each is the entry found under its own id), every id lies between 1 and
\* currentContentId - 1, and the table holds at most currentContentId - 1
\* entries; and the step that starts a refresh cycle sets the id counter to 1.
C27_IdsBelowCounter ==
  /\ [](/\ \A i, j \in DOMAIN content : content[i].id = content[j].id => i = j
        /\ \A i \in DOMAIN content :
             /\ content[i].id \in 1..(currentContentId - 1)
             /\ mapSet(content, content[i].id, content[i]) = content
        /\ Len(content) <= currentContentId - 1)
  /\ [][cycles' = cycles + 1 => currentContentId' = 1]_vars

C27_Witness ==
  /\ cycles = 2 /\ isUpdating
  /\ Len(content) = 2 /\ currentContentId = 3
  /\ content[1].id = 1 /\ content[2].id = 2

\* C28: no step clears the ready flag, and a step that sets it leaves a table
\* into which a refresh cycle has loaded at least one entry.
C28_ReadyMeansLoaded ==
  [][/\ catalogReady => catalogReady'
     /\ (~catalogReady /\ catalogReady') => Len(content') >= 1]_vars

(***************************************************************************)
(* CatalogUpdater: the updates of the database catalog.  db holds the      *)
(* tables content (rows in the order of their serial ids) and              *)
(* catalog_updates; updater is the position of scheduleUpdates and of the  *)
(* update it runs, with the local variables of that update.  Each step is  *)
(* one awaited stage; a statement of the database either takes effect or   *)
(* throws.  The columns year, imageUrl and the timestamps are left out.    *)
(* inserted, updated, deleted and last are history: the rows the running   *)
(* update inserted, the items it updated, the rows it deleted, and what    *)
(* the last step did.                                                      *)
(***************************************************************************)
updateBatchSize == 2

MaxUpdates == 2

storeVars == << content, currentContentId, lastUpdateTime, isUpdating, catalogReady,
                retries, initPc, run, cycles, overwritten, event, lastRead, keepBefore >>

CatalogUpdater_mapTMDBToUKRating(certification) ==
  CASE certification = "U" -> "U"
    [] certification = "PG" -> "PG"
    [] certification \in {"12A", "12"} -> "12"
    [] certification = "15" -> "15"
    [] certification \in {"18", "R18"} -> "18"
    [] OTHER -> "12"

\* The object processContentItem returns for a list item and its detail
\* body; it has no language.
processContentItem(item, details) ==
  [title |-> orElse(details.title, details.name),
   rating |-> IF details.cert = NoCert \/ details.cert = "" THEN "12"
              ELSE CatalogUpdater_mapTMDBToUKRating(details.cert),
   genre |-> orElse(details.genre, Drama),
   description |-> orElse(details.overview, NoDescription),
   type |-> IF item.media_type = "movie" THEN "movie" ELSE "series",
   tmdbId |-> item.id]

\* The columns of the table content declared notNull() without a default.
NotNullColumns == {"title", "rating", "genre", "description", "type", "language"}

\* The columns whose values are texts; rating and type are codes, always set.
TextColumns == {"title", "genre", "description"}

\* The object has the property and it is not undefined.
isDefined(values, column) ==
  column \in DOMAIN values /\ (column \in TextColumns => values[column] # Undef)

\* Whether the database accepts the values as a new row of content.
insertable(values) == \A column \in NotNullColumns : isDefined(values, column)

\* db.insert(content).values(rows): all the rows or, when one violates a
\* constraint, none.
insertContent(d, rows) ==
  [d EXCEPT !.content = d.content \o
                          [k \in DOMAIN rows |-> [id |-> d.contentSerial + k - 1] @@ rows[k]],
            !.contentSerial = d.contentSerial + Len(rows)]

\* set(values): the columns whose value is defined.
setColumns(row, values) ==
  [column \in DOMAIN row |->
     IF isDefined(values, column) THEN values[column] ELSE row[column]]

\* Mutation: the row to update is the one of the item's id and media kind.
updateContent_sameKind(rows, tmdbId, values) ==
  [k \in DOMAIN rows |->
     IF rows[k].tmdbId = tmdbId /\ rows[k].type = values.type
     THEN setColumns(rows[k], values) ELSE rows[k]]

\* db.update(content).set(values).where(eq(content.tmdbId, tmdbId))
updateContent(rows, tmdbId, values) ==
  [k \in DOMAIN rows |->
     IF rows[k].tmdbId = tmdbId THEN setColumns(rows[k], values) ELSE rows[k]]

\* db.select().from(content).where(eq(content.tmdbId, tmdbId)).limit(1)
existing(rows, tmdbId) == SelectSeq(rows, LAMBDA row : row.tmdbId = tmdbId)

\* Mutation: the update of the record has no where clause.
updateRecord_everyRecord(records, id, changes) ==
  [k \in DOMAIN records |-> setColumns(records[k], changes)]

\* db.update(catalogUpdates).set(changes).where(eq(catalogUpdates.id, id))
updateRecord(records, id, changes) ==
  [k \in DOMAIN records |->
     IF records[k].id = id THEN setColumns(records[k], changes) ELSE records[k]]

asItem(body) == [id |-> body.id, media_type |-> body.media_type]

NoItem == [id |-> 0, media_type |-> "none"]

NoStep == [op |-> "none", item |-> NoItem, dbOk |-> TRUE]

IdleUpdater ==
  [pc |-> "idle", kind |-> "none", rec |-> 0, all |-> << >>, i |-> 0,
   processedCount |-> 0, inserted |-> 0, updated |-> 0, deleted |-> << >>,
   last |-> NoStep]

\* The lists the external API can answer with: the discover lists of the
\* full update, any number of pages of each, and the two trending lists of
\* the incremental update.
fetchAllNetflixContent ==
  {[k \in 1..m |-> asItem(MovieList[k])] \o [k \in 1..t |-> asItem(TvList[k])] :
     m \in 0..Len(MovieList), t \in 0..Len(TvList)}

TrendingMovies == << asItem(Upstream1) >>

TrendingTv == << asItem(Upstream3), asItem(Upstream4) >>

\* A failure of the first request, or a body without results, leaves the
\* list empty; one of the second leaves the movies.
fetchRecentNetflixContent == {<< >>, TrendingMovies, TrendingMovies \o TrendingTv}

\* The processed item (null when the detail request fails).
processed(item, outcome) ==
  IF outcome = "fail" THEN << >>
  ELSE << processContentItem(item, IF outcome = "ok" THEN detailsOf(item)
                                   ELSE ErrorBody(item)) >>

\* A row of a database that was filled before this process started.
storedRow(body, id) ==
  [id |-> id,
   language |-> IF body.original_language \in DOMAIN languageMap
                THEN languageMap[body.original_language] ELSE "Other"]
    @@ processContentItem(asItem(body), body)

StoredTables ==
  {<< >>,
   << storedRow(Upstream1, 1) >>,
   << storedRow(Upstream1, 1), storedRow(Upstream3, 2) >>,
   << storedRow(Upstream2, 1), storedRow(Upstream3, 2), storedRow(Upstream4, 3) >>}

InitUpdater ==
  /\ Started /\ keepBefore = FALSE
  /\ \E rows \in StoredTables :
       db = [content |-> rows, contentSerial |-> Len(rows) + 1, catalogUpdates |-> << >>]
  /\ updater = [IdleUpdater EXCEPT !.pc = "start"]
  /\ rated = NotRated
  /\ NoClient

\* The update stops at a statement that threw inside the try block.
Caught(u, op) ==
  /\ updater' = [u EXCEPT !.pc = "catch", !.last = [NoStep EXCEPT !.op = op, !.dbOk = FALSE]]
  /\ UNCHANGED db

\* scheduleUpdates: the count of the rows, then the full update when there
\* is none, then the timer.
ScheduleUpdates(dbOk) ==
  /\ updater.pc = "start"
  /\ updater' = [updater EXCEPT !.pc = IF ~dbOk THEN "stopped"
                                       ELSE IF Len(db.content) = 0 THEN "begin"
                                       ELSE "idle",
                                !.kind = IF dbOk /\ Len(db.content) = 0 THEN "full" ELSE "none"]
  /\ UNCHANGED << db, storeVars, rated, clientVars >>

\* The callback of setInterval.
UpdaterTick ==
  /\ updater.pc = "idle"
  /\ Len(db.catalogUpdates) < MaxUpdates
  /\ updater' = [IdleUpdater EXCEPT !.pc = "begin", !.kind = "incremental"]
  /\ UNCHANGED << db, storeVars, rated, clientVars >>

\* A call of the public method performFullUpdate while no update runs.
PerformFullUpdate ==
  /\ updater.pc = "idle"
  /\ Len(db.catalogUpdates) < MaxUpdates
  /\ updater' = [IdleUpdater EXCEPT !.pc = "begin", !.kind = "full"]
  /\ UNCHANGED << db, storeVars, rated, clientVars >>

\* The insert of the update record, before the try block.
BeginUpdate(dbOk) ==
  /\ updater.pc = "begin"
  /\ IF dbOk
     THEN LET id == Len(db.catalogUpdates) + 1
          IN /\ db' = [db EXCEPT !.catalogUpdates =
                         Append(@, [id |-> id, updateType |-> updater.kind,
                                    status |-> "running", titlesProcessed |-> 0])]
             /\ updater' = [updater EXCEPT !.rec = id, !.last = NoStep,
                              !.pc = IF updater.kind = "full" THEN "delete" ELSE "recent"]
     ELSE /\ updater' = [updater EXCEPT !.pc = "stopped"]
          /\ UNCHANGED db
  /\ UNCHANGED << storeVars, rated, clientVars >>

\* await db.delete(content)
DeleteContent(dbOk) ==
  /\ updater.pc = "delete"
  /\ IF dbOk
     THEN /\ db' = [db EXCEPT !.content = << >>]
          /\ updater' = [updater EXCEPT !.pc = "discover", !.deleted = db.content,
                                        !.last = [NoStep EXCEPT !.op = "delete"]]
     ELSE Caught(updater, "delete")
  /\ UNCHANGED << storeVars, rated, clientVars >>

FetchAll(found) ==
  /\ updater.pc = "discover"
  /\ updater' = [updater EXCEPT !.all = found, !.i = 0, !.last = NoStep,
                                !.pc = IF Len(found) = 0 THEN "complete" ELSE "batch"]
  /\ UNCHANGED << db, storeVars, rated, clientVars >>

\* One batch of the full update: processContentBatch and the insert of its
\* rows.
InsertBatch(outcomes, dbOk) ==
  /\ updater.pc = "batch"
  /\ LET batch == SubSeq(updater.all, updater.i + 1,
                         Min(updater.i + updateBatchSize, Len(updater.all)))
     IN /\ DOMAIN outcomes = DOMAIN batch
        /\ LET rowsOf[k \in 0..Len(batch)] ==
                 IF k = 0 THEN << >> ELSE rowsOf[k - 1] \o processed(batch[k], outcomes[k])
               processedBatch == rowsOf[Len(batch)]
           IN IF Len(processedBatch) = 0
              THEN /\ updater' = [updater EXCEPT !.pc = "progress", !.last = NoStep]
                   /\ UNCHANGED db
              ELSE IF ~dbOk
              THEN Caught(updater, "insert")
              ELSE IF \A k \in DOMAIN processedBatch : insertable(processedBatch[k])
              THEN /\ db' = insertContent(db, processedBatch)
                   /\ updater' = [updater EXCEPT
                                    !.pc = "progress",
                                    !.processedCount = @ + Len(processedBatch),
                                    !.inserted = @ + Len(processedBatch),
                                    !.last = [NoStep EXCEPT !.op = "insert"]]
              ELSE /\ updater' = [updater EXCEPT !.pc = "catch",
                                                 !.last = [NoStep EXCEPT !.op = "rejected"]]
                   /\ UNCHANGED db
  /\ UNCHANGED << storeVars, rated, clientVars >>

\* The progress written after each batch.
Progress(dbOk) ==
  /\ updater.pc = "progress"
  /\ IF dbOk
     THEN /\ db' = [db EXCEPT !.catalogUpdates =
                      updateRecord(@, updater.rec,
                                   [titlesProcessed |-> updater.processedCount])]
          /\ updater' = [updater EXCEPT
                           !.i = @ + updateBatchSize, !.last = NoStep,
                           !.pc = IF updater.i + updateBatchSize < Len(updater.all)
                                  THEN "batch" ELSE "complete"]
     ELSE Caught(updater, "progress")
  /\ UNCHANGED << storeVars, rated, clientVars >>

FetchRecent(found) ==
  /\ updater.pc = "recent"
  /\ updater' = [updater EXCEPT !.all = found, !.i = 0, !.last = NoStep,
                                !.pc = IF Len(found) = 0 THEN "complete" ELSE "item"]
  /\ UNCHANGED << db, storeVars, rated, clientVars >>

\* One item of the incremental update: processContentItem, the select, and
\* the update or the insert.
Upsert(outcome, dbOk) ==
  /\ updater.pc = "item"
  /\ LET item == updater.all[updater.i + 1]
         processedItem == processed(item, outcome)
         after == IF updater.i + 1 < Len(updater.all) THEN "item" ELSE "complete"
     IN IF Len(processedItem) = 0
        THEN /\ updater' = [updater EXCEPT !.i = @ + 1, !.pc = after,
                                           !.last = [NoStep EXCEPT !.op = "skip", !.item = item]]
             /\ UNCHANGED db
        ELSE IF ~dbOk
        THEN Caught(updater, "upsert")
        ELSE IF Len(existing(db.content, item.id)) > 0
        THEN /\ db' = [db EXCEPT !.content = updateContent(@, item.id, processedItem[1])]
             /\ updater' = [updater EXCEPT !.i = @ + 1, !.pc = after,
                                           !.processedCount = @ + 1, !.updated = @ + 1,
                                           !.last = [NoStep EXCEPT !.op = "update", !.item = item]]
        ELSE IF insertable(processedItem[1])
        THEN /\ db' = insertContent(db, processedItem)
             /\ updater' = [updater EXCEPT !.i = @ + 1, !.pc = after,
                                           !.processedCount = @ + 1, !.inserted = @ + 1,
                                           !.last = [NoStep EXCEPT !.op = "insert", !.item = item]]
        ELSE /\ updater' = [updater EXCEPT !.pc = "catch",
                                           !.last = [NoStep EXCEPT !.op = "rejected", !.item = item]]
             /\ UNCHANGED db
  /\ UNCHANGED << storeVars, rated, clientVars >>

\* The last statement of the try block.
Complete(dbOk) ==
  /\ updater.pc = "complete"
  /\ IF dbOk
     THEN /\ db' = [db EXCEPT !.catalogUpdates =
                      updateRecord(@, updater.rec,
                                   [status |-> "completed",
                                    titlesProcessed |-> updater.processedCount])]
          /\ updater' = [updater EXCEPT !.pc = "idle", !.last = [NoStep EXCEPT !.op = "completed"]]
     ELSE Caught(updater, "complete")
  /\ UNCHANGED << storeVars, rated, clientVars >>

\* The catch block; when its statement throws too, the update rejects and
\* the record keeps its status.
Catch(dbOk) ==
  /\ updater.pc = "catch"
  /\ IF dbOk
     THEN /\ db' = [db EXCEPT !.catalogUpdates =
                      updateRecord(@, updater.rec, [status |-> "failed"])]
          /\ updater' = [updater EXCEPT !.pc = "idle", !.last = [NoStep EXCEPT !.op = "failed"]]
     ELSE /\ updater' = [updater EXCEPT !.pc = "stopped",
                                        !.last = [NoStep EXCEPT !.op = "rejected update",
                                                                !.dbOk = FALSE]]
          /\ UNCHANGED db
  /\ UNCHANGED << storeVars, rated, clientVars >>

NextUpdater ==
  \/ \E dbOk \in BOOLEAN : ScheduleUpdates(dbOk)
  \/ UpdaterTick
  \/ PerformFullUpdate
  \/ \E dbOk \in BOOLEAN : BeginUpdate(dbOk)
  \/ \E dbOk \in BOOLEAN : DeleteContent(dbOk)
  \/ \E found \in fetchAllNetflixContent : FetchAll(found)
  \/ \E n \in 1..updateBatchSize, dbOk \in BOOLEAN :
       \E outcomes \in [1..n -> {"ok", "error", "fail"}] : InsertBatch(outcomes, dbOk)
  \/ \E dbOk \in BOOLEAN : Progress(dbOk)
  \/ \E found \in fetchRecentNetflixContent : FetchRecent(found)
  \/ \E outcome \in {"ok", "error", "fail"}, dbOk \in BOOLEAN : Upsert(outcome, dbOk)
  \/ \E dbOk \in BOOLEAN : Complete(dbOk)
  \/ \E dbOk \in BOOLEAN : Catch(dbOk)

SpecUpdater == InitUpdater /\ [][NextUpdater]_vars

sameTitle(row, item) ==
  row.tmdbId = item.id /\ row.type = (IF item.media_type = "movie" THEN "movie" ELSE "series")

\* C29: a step of performIncrementalUpdate that treats a processed item,
\* the database answering, leaves every row of another title as it was;
\* when the table has a row of the item's title it keeps its number of
\* rows, and otherwise it gains one row, of that title.
C29_UpsertPerTitle ==
  [][LET item == updater'.last.item
         known == \E k \in DOMAIN db.content : sameTitle(db.content[k], item)
     IN (updater.pc = "item" /\ updater'.last.op \in {"update", "insert", "rejected"}) =>
          /\ \A k \in DOMAIN db.content :
               ~sameTitle(db.content[k], item) =>
                 k \in DOMAIN db'.content /\ db'.content[k] = db.content[k]
          /\ known => Len(db'.content) = Len(db.content)
          /\ ~known => /\ Len(db'.content) = Len(db.content) + 1
                       /\ sameTitle(db'.content[Len(db'.content)], item)]_vars

\* The status of the records is written by the update that created them.
StatusSteps ==
  [][LET old == db.catalogUpdates
         new == db'.catalogUpdates
     IN /\ DOMAIN old \subseteq DOMAIN new
        /\ \A k \in DOMAIN new \ DOMAIN old : new[k].status = "running"
        /\ \A k \in DOMAIN old :
             /\ old[k].status # "running" => new[k].status = old[k].status
             /\ new[k].status \in {"running", "completed", "failed"}]_vars

Ended == updater.rec # 0 /\ updater.pc \in {"idle", "stopped"}

AllTreated == updater.i >= Len(updater.all)

DeletedRowsGone ==
  (updater.kind = "full" /\ updater.rec # 0 /\
   db.catalogUpdates[updater.rec].status = "failed") =>
    \A k \in DOMAIN updater.deleted : updater.deleted[k] \notin Range(db.content)

\* C30: a record is created with status running and changes status once, to
\* completed or failed, and never again: when its update has ended it is
\* completed or failed.  A completed record belongs to an update that
\* treated all its batches, and its titlesProcessed is the number of rows
\* that update inserted.  After a failed full update the table has none of
\* the rows the update deleted.
C30_RecordLifecycle ==
  /\ StatusSteps
  /\ [](Ended => db.catalogUpdates[updater.rec].status \in {"completed", "failed"})
  /\ []((updater.rec # 0 /\ db.catalogUpdates[updater.rec].status = "completed") =>
          /\ AllTreated
          /\ db.catalogUpdates[updater.rec].titlesProcessed = updater.inserted)
  /\ []DeletedRowsGone

\* C30 as amended: a record is created with status running and changes
\* status at most once, to completed or failed; when its update has
\* returned it is completed or failed.  A completed record belongs to an
\* update that treated all its batches or items, and its titlesProcessed is
\* the number of rows that update inserted plus the number of items whose
\* rows it updated.  After a failed full update the table has none of the
\* rows the update deleted.
C30_RecordLifecycleAmended ==
  /\ StatusSteps
  /\ []((Ended /\ updater.pc = "idle") =>
          db.catalogUpdates[updater.rec].status \in {"completed", "failed"})
  /\ []((updater.rec # 0 /\ db.catalogUpdates[updater.rec].status = "completed") =>
          /\ AllTreated
          /\ db.catalogUpdates[updater.rec].titlesProcessed =
               updater.inserted + updater.updated)
  /\ []DeletedRowsGone

C30_Witness ==
  /\ Len(db.catalogUpdates) = 2
  /\ db.catalogUpdates[1].status = "completed" /\ db.catalogUpdates[1].titlesProcessed = 2
  /\ db.catalogUpdates[2].status = "failed" /\ updater.last.op = "failed"
  /\ updater.kind = "full" /\ Len(updater.deleted) = 3 /\ db.content = << >>

(***************************************************************************)
(* The hook useToast.  toasts is the state of useState; timers holds the   *)
(* ids of the pending setTimeout callbacks, which all have the delay of    *)
(* 5 s and so fire in the order of their creation.  An id is the text      *)
(* Math.random gives: any of ToastIds, also one already in the list.  n is *)
(* history: the number of the call that added the toast.                   *)
(***************************************************************************)
MaxToastCalls == 3

ToastIds == {"k3x", "q7p"}

ToastTitles == {"Saved", "Failed"}

serverVars == << content, currentContentId, lastUpdateTime, isUpdating, catalogReady,
                 retries, initPc, run, cycles, overwritten, event, lastRead, keepBefore,
                 db, updater, rated >>

\* Mutation: the first toast of the list is removed, whatever its id.
withoutId_first(prev, id) == IF prev = << >> THEN prev ELSE Tail(prev)

\* prev.filter((t) => t.id !== id)
withoutId(prev, id) == SelectSeq(prev, LAMBDA t : t.id # id)

\* toast({title, description, action})
AddToast(id, title) ==
  /\ toastLog.calls < MaxToastCalls
  /\ toasts' = Append(toasts, [id |-> id, title |-> title, n |-> toastLog.calls + 1])
  /\ timers' = Append(timers, id)
  /\ toastLog' = [calls |-> toastLog.calls + 1, op |-> "toast", id |-> id]
  /\ UNCHANGED << serverVars, home >>

\* dismiss(id)
Dismiss(id) ==
  /\ toasts' = withoutId(toasts, id)
  /\ toastLog' = [toastLog EXCEPT !.op = "dismiss", !.id = id]
  /\ UNCHANGED << serverVars, timers, home >>

\* The callback of the oldest pending timer.
Expire ==
  /\ timers # << >>
  /\ toasts' = withoutId(toasts, Head(timers))
  /\ timers' = Tail(timers)
  /\ toastLog' = [toastLog EXCEPT !.op = "expire", !.id = Head(timers)]
  /\ UNCHANGED << serverVars, home >>

InitToast ==
  /\ Started /\ keepBefore = FALSE /\ db = NoDb /\ updater = NoUpdater /\ rated = NotRated
  /\ toasts = << >>
  /\ timers = << >>
  /\ toastLog = NoToastLog
  /\ home = NoHome

NextToast ==
  \/ \E id \in ToastIds, title \in ToastTitles : AddToast(id, title)
  \/ \E id \in ToastIds : Dismiss(id)
  \/ Expire

\* Every timer that was set fires.
SpecToast == InitToast /\ [][NextToast]_vars /\ WF_vars(Expire)

Shown(n) == \E k \in DOMAIN toasts : toasts[k].n = n

\* C31: every toast added is removed from the list at some later time; and
\* a step of dismiss(id), or the expiry of the timer of id, leaves in the
\* list the toasts of the other ids, all of them and in their order, and no
\* toast of id.
C31_ToastsRemoved ==
  /\ \A n \in 1..MaxToastCalls : Shown(n) ~> ~Shown(n)
  /\ [][toastLog'.op \in {"dismiss", "expire"} =>
          LET id == toastLog'.id
              kept == {k \in DOMAIN toasts : toasts[k].id # id}
          IN /\ Len(toasts') = Cardinality(kept)
             /\ \A k \in DOMAIN toasts' : toasts'[k].id # id
             /\ \A k \in kept :
                  toasts'[Cardinality({j \in kept : j <= k})] = toasts[k]]_vars

C31_Witness ==
  /\ toastLog.op = "dismiss" /\ toastLog.id = "q7p" /\ toastLog.calls = 3
  /\ Len(toasts) = 2 /\ toasts[1].n = 1 /\ toasts[2].n = 3
  /\ toasts[1].id = "k3x" /\ toasts[2].id = "k3x"
  /\ Len(timers) = 3

(***************************************************************************)
(* The page Home.  home holds the state of its useState hooks and the data *)
(* of its query of /api/content (the empty list until the answer is        *)
(* there); the list it displays, filteredContent, is computed from them at *)
(* each render.  The selections offered are a sample of the constants      *)
(* UK_AGE_RATINGS, LANGUAGES and GENRES; the empty text is no selection.   *)
(* last is history: the handler that made the last step.                   *)
(***************************************************************************)
AgeChoices == {"12", "15", "18"}

LanguageChoices == {"English", "Korean"}

GenreChoices == {Drama, Comedy}

SearchTerms == {<< >>, << "B" >>, << " " >>}

MaxLoaded == 2

\* The lists GET /api/content can answer with, on tables of up to MaxLoaded
\* titles.
LoadedLists ==
  LET tables == UNION {{tableOf(bodies) : bodies \in [1..n -> DetailBodies]} :
                         n \in 0..MaxLoaded}
  IN {out.list : out \in {o \in UNION {getAllContent(tbl) : tbl \in tables} : o.ok}}

\* Mutation: the genre selection is not applied.
matchesGenre_always(item, selectedGenre) == TRUE

\* !selectedGenre || item.genre.includes(selectedGenre)
matchesGenre(item, selectedGenre) ==
  selectedGenre = << >> \/ includes(item.genre, selectedGenre)

\* The callback of content.filter; it dereferences item.title first.
matchesHome(item, h) ==
  /\ \/ includes(toLowerCase(item.title), toLowerCase(h.searchTerm))
     \/ includes(toLowerCase(item.description), toLowerCase(h.searchTerm))
  /\ h.selectedAge = "" \/ item.rating = h.selectedAge
  /\ h.selectedLanguage = "" \/ item.language = h.selectedLanguage
  /\ matchesGenre(item, h.selectedGenre)

\* filteredContent: the list displayed, or the TypeError of a title that is
\* undefined.
filteredContent(h) ==
  IF untitled(h.content) # {} THEN Thrown
  ELSE Returned(SelectSeq(h.content, LAMBDA item : matchesHome(item, h)))

\* Mutation: the search term is kept.
clearedFilters_keepSearch(h) ==
  [h EXCEPT !.selectedAge = "", !.selectedLanguage = "", !.selectedGenre = << >>]

\* clearAllFilters
clearedFilters(h) ==
  [h EXCEPT !.selectedAge = "", !.selectedLanguage = "", !.selectedGenre = << >>,
            !.searchTerm = << >>]

\* selectedAge || selectedLanguage || selectedGenre || searchTerm
hasActiveFilters(h) ==
  h.selectedAge # "" \/ h.selectedLanguage # "" \/ h.selectedGenre # << >>
    \/ h.searchTerm # << >>

InitialHome ==
  [pc |-> "loading", content |-> << >>, searchTerm |-> << >>, selectedAge |-> "",
   selectedLanguage |-> "", selectedGenre |-> << >>, showFilters |-> FALSE,
   last |-> "none"]

homeFrame == UNCHANGED << serverVars, toasts, timers, toastLog >>

\* The page shows its controls: the query has not failed and the render has
\* not thrown.
rendered(h) == h.pc # "error" /\ filteredContent(h).ok

\* The answer of the query.
LoadContent(list) ==
  /\ home.pc = "loading"
  /\ home' = [home EXCEPT !.pc = "loaded", !.content = list, !.last = "load"]
  /\ homeFrame

LoadError ==
  /\ home.pc = "loading"
  /\ home' = [home EXCEPT !.pc = "error", !.last = "error"]
  /\ homeFrame

SetSearchTerm(value) ==
  /\ rendered(home)
  /\ home' = [home EXCEPT !.searchTerm = value, !.last = "search"]
  /\ homeFrame

SetSelectedAge(value) ==
  /\ rendered(home)
  /\ home' = [home EXCEPT !.selectedAge = value, !.last = "age"]
  /\ homeFrame

SetSelectedLanguage(value) ==
  /\ rendered(home)
  /\ home' = [home EXCEPT !.selectedLanguage = value, !.last = "language"]
  /\ homeFrame

SetSelectedGenre(value) ==
  /\ rendered(home)
  /\ home' = [home EXCEPT !.selectedGenre = value, !.last = "genre"]
  /\ homeFrame

ToggleFilters ==
  /\ rendered(home)
  /\ home' = [home EXCEPT !.showFilters = ~@, !.last = "toggle"]
  /\ homeFrame

\* The button is rendered when a filter is active.
ClearAllFilters ==
  /\ rendered(home)
  /\ hasActiveFilters(home)
  /\ home' = [clearedFilters(home) EXCEPT !.last = "clear"]
  /\ homeFrame

InitHome ==
  /\ Started /\ keepBefore = FALSE /\ db = NoDb /\ updater = NoUpdater /\ rated = NotRated
  /\ toasts = << >>
  /\ timers = << >>
  /\ toastLog = NoToastLog
  /\ home = InitialHome

NextHome ==
  \/ \E list \in LoadedLists : LoadContent(list)
  \/ LoadError
  \/ \E value \in SearchTerms : SetSearchTerm(value)
  \/ \E value \in AgeChoices \cup {""} : SetSelectedAge(value)
  \/ \E value \in LanguageChoices \cup {""} : SetSelectedLanguage(value)
  \/ \E value \in GenreChoices \cup {<< >>} : SetSelectedGenre(value)
  \/ ToggleFilters
  \/ ClearAllFilters

SpecHome == InitHome /\ [][NextHome]_vars

\* The item agrees with every selection that is made.
MatchesSelections(item, h) ==
  /\ h.searchTerm # << >> =>
       ContainsFolded(item.title, h.searchTerm) \/ ContainsFolded(item.description, h.searchTerm)
  /\ h.selectedAge # "" => item.rating = h.selectedAge
  /\ h.selectedLanguage # "" => item.language = h.selectedLanguage
  /\ h.selectedGenre # << >> => ContainsFolded(item.genre, h.selectedGenre)

mapToUKRating(usRating) ==
  CASE usRating \in {"G", "TV-Y", "TV-G"} -> "U"
    [] usRating \in {"PG", "TV-PG"} -> "PG"
    [] usRating \in {"PG-13", "TV-14"} -> "PG 13"
    [] usRating \in {"R", "TV-MA"} -> "15"
    [] usRating \in {"NC-17", "X"} -> "18"
    [] usRating \in {"Not Rated", "Unrated"} -> "12"
    [] usRating \in {"Approved", "Passed"} -> "PG"
    [] usRating = "M" -> "15"
    [] usRating = "TV-Y7" -> "PG"
    [] OTHER -> "12"

RatingCodes ==
  {"G", "TV-Y", "TV-G", "PG", "TV-PG", "PG-13", "TV-14", "R", "TV-MA", "NC-17", "X",
   "Not Rated", "Unrated", "Approved", "Passed", "M", "TV-Y7",
   "U", "12A", "12", "15", "18", "R18",
   "", "N/A", "pg-13", "PG 13", "TV-Y7-FV", "16", "GP", "tv-ma"}

InitRatings ==
  /\ Started /\ keepBefore = FALSE /\ db = NoDb /\ updater = NoUpdater /\ NoClient
  /\ \E code \in RatingCodes, helper \in {"mapToUKRating", "mapTMDBToUKRating"} :
       rated = [helper |-> helper, usRating |-> code, result |-> "<pending>"]

ratedFrame == UNCHANGED << storeVars, db, updater, clientVars >>

ReturnMapToUKRating ==
  /\ rated.helper = "mapToUKRating" /\ rated.result = "<pending>"
  /\ rated' = [rated EXCEPT !.result = mapToUKRating(rated.usRating)]
  /\ ratedFrame

ReturnMapTMDBToUKRating ==
  /\ rated.helper = "mapTMDBToUKRating" /\ rated.result = "<pending>"
  /\ rated' = [rated EXCEPT !.result = mapTMDBToUKRating(rated.usRating)]
  /\ ratedFrame

NextRatings == ReturnMapToUKRating \/ ReturnMapTMDBToUKRating

SpecRatings == InitRatings /\ [][NextRatings]_vars

\* C33: whatever the helper and its argument, the result of a rating helper
\* is one of U, PG, 12, 15 and 18.
C33_HelpersInVocabulary ==
  rated.result # "<pending>" => rated.result \in {"U", "PG", "12", "15", "18"}

====
